---- MODULE Spec2Model ----
(***************************************************************************)
(* WaveRider IDE: agent task registry and progress channel of the          *)
(* WaveRiderIDE component (src/src/components/ide/waverider-ide-new.tsx,   *)
(* the component that starts at line 790).                                 *)
(*                                                                         *)
(* Optional values of the source (T | null, T | undefined, field?: T) are  *)
(* sequences of length 0 or 1.  Session ids are positive naturals; 0 is a  *)
(* missing or falsy session_id.  A terminal line is modelled by its        *)
(* message tag; the "[hh:mm:ss]" prefix and the interpolated text are not  *)
(* kept.  The agent kind is an opaque tag copied from the picker into the  *)
(* request and the record; one kind is enumerated.                         *)
(***************************************************************************)
EXTENDS Naturals, Integers, Sequences, FiniteSets, TLC

\* ------------------------------------------------------------------ bounds
MaxInFlight == 1
MaxLog == 5
MaxOps == 2
MaxFileLog == 3
MaxStoreLen == 1
MaxChat == 4

\* --------------------------------------------------------- input alphabets
AgentKinds == {"coder"}
Inputs == {<<>>, <<" ">>, <<"a">>}
Percentages == {10, 100, 150}
StatusTags == {"thinking"}
OtherKinds == {"ping"}
Results == {"output"}
Reasons == {"error"}
SessionIds == 1..2
EventSessions == {0} \cup SessionIds

VARIABLES
    currentProject,   \* useState<Project | null>
    taskInput,        \* useState('')
    selectedAgent,    \* useState('coder')
    activeTasks,      \* useState<AgentTask[]>([])
    terminalOutput,   \* useState<string[]>([])
    socketRef,        \* readyState of the WebSocket held by socketRef
    projectReq,       \* state of the POST /api/projects of initializeDefaultProject
    taskReqs,         \* POST /api/tasks calls awaiting their continuation
    nextSession,      \* backend: next session id to issue
    clock,            \* the wall clock read by new Date(); it advances between reads
    storage,          \* backend: the files of the project, path -> content
    files,            \* useState<FileNode[]>([])
    currentFile,      \* useState<string>('')
    fileContent,      \* useState<string>('// Welcome ...')
    isLoading,        \* useState(false)
    isCreatingFile,   \* useState(false)
    newFileName,      \* useState('')
    expandedDirectories, \* useState<Set<string>>(new Set())
    fileOps,          \* calls of the async file functions awaiting a response
    store,            \* the state of useWaveRiderStore (src/src/store/waverider-store.ts)
    localStorage,     \* the 'waverider-store' item of localStorage, <<>> when absent
    chatMessages,     \* useState<ChatMessage[]>([])
    chatInput,        \* useState('')
    isChatLoading,    \* useState(false)
    chatReqs,         \* calls of sendChatMessage awaiting a response
    timers            \* callbacks handed to setTimeout, in the order they fire

fileVars == <<storage, files, currentFile, fileContent, isLoading, isCreatingFile,
              newFileName, expandedDirectories, fileOps>>

taskVars == <<taskInput, selectedAgent, activeTasks, socketRef, projectReq,
              taskReqs, nextSession, clock>>

storeVars == <<store, localStorage>>

chatVars == <<chatMessages, chatInput, isChatLoading, chatReqs, timers>>

vars == <<currentProject, taskInput, selectedAgent, activeTasks, terminalOutput,
          socketRef, projectReq, taskReqs, nextSession, clock, fileVars, storeVars, chatVars>>

\* ------------------------------------------------------------ pure helpers
IsSpace(c) == c = " "

RECURSIVE trimStart(_)
trimStart(s) ==
    IF s = <<>> THEN <<>>
    ELSE IF IsSpace(Head(s)) THEN trimStart(Tail(s)) ELSE s

RECURSIVE trimEnd(_)
trimEnd(s) ==
    IF s = <<>> THEN <<>>
    ELSE IF IsSpace(s[Len(s)]) THEN trimEnd(SubSeq(s, 1, Len(s) - 1)) ELSE s

\* a guard that tests the raw text: whitespace counts as a description
trim_Identity(s) == s

\* String.prototype.trim
trim(s) == trimEnd(trimStart(s))

\* a test that takes every string for a text
Falsy_Never(s) == FALSE

\* a string is falsy exactly when it is empty
Falsy(s) == s = <<>>

\* addToTerminal: setTerminalOutput(prev => [...prev, `[${timestamp}] ${message}`])
addToTerminal(prev, message) == Append(prev, message)

RemoveAt(s, i) == SubSeq(s, 1, i - 1) \o SubSeq(s, i + 1, Len(s))

\* ------------------------------------------------------------ wire frames
Payloads ==
    [session_id : EventSessions, progress : Percentages,
     status : StatusTags, message : {"msg"}]

Malformed == [wellFormed |-> FALSE, isObject |-> FALSE, type |-> "", data |-> <<>>]
JsonNull == [wellFormed |-> TRUE, isObject |-> FALSE, type |-> "", data |-> <<>>]

Frames ==
    {Malformed, JsonNull}
    \cup [wellFormed : {TRUE}, isObject : {TRUE}, type : {"agent_progress"},
          data : {<<>>} \cup {<<p>> : p \in Payloads}]
    \cup [wellFormed : {TRUE}, isObject : {TRUE}, type : OtherKinds,
          data : {<<>>} \cup {<<p>> : p \in {q \in Payloads : q.progress = 100}}]

\* JSON.parse(event.data): throws on text that is not JSON
JSONparse(frame) == [threw |-> ~frame.wellFormed, value |-> frame]

\* data.type: a property read on null throws a TypeError
ReadTypeThrows(value) == ~value.isObject

\* the branch of handleAgentProgress: data.data && data.data.session_id
HasSession(data) == Len(data.data) = 1 /\ data.data[1].session_id # 0

\* an updater whose comparison always succeeds: every task takes the event
ApplyProgress_EveryTask(prev, payload) ==
    [i \in DOMAIN prev |-> [prev[i] EXCEPT !.progress = <<payload>>]]

\* an updater that keeps the progress a task already has
ApplyProgress_KeepsFirst(prev, payload) ==
    [i \in DOMAIN prev |->
        IF prev[i].session_id = payload.session_id /\ prev[i].progress = <<>>
        THEN [prev[i] EXCEPT !.progress = <<payload>>]
        ELSE prev[i]]

\* an updater that builds the matching record anew and stamps it again
ApplyProgress_Restamps(prev, payload) ==
    [i \in DOMAIN prev |->
        IF prev[i].session_id = payload.session_id
        THEN [prev[i] EXCEPT !.progress = <<payload>>, !.created_at = 0]
        ELSE prev[i]]

\* the updater passed to setActiveTasks by handleAgentProgress
ApplyProgress(prev, payload) ==
    [i \in DOMAIN prev |->
        IF prev[i].session_id = payload.session_id
        THEN [prev[i] EXCEPT !.progress = <<payload>>]
        ELSE prev[i]]

\* --------------------------------------------------------------- file tree
\* A path and a file name are sequences of characters, '' is <<>>.
PathZ == <<"z">>
PathD == <<"d">>
PathC == <<"d", "/", "c">>
PathE == <<"d", "/", "e">>
PathB == <<"d", "/", "e", "/", "b">>
PathH == <<"a", ".", "h", "t", "m", "l">>
FilePaths == {PathZ, PathC, PathB, PathH}
NewFileNames == {<<" ">>, PathZ}
WelcomeContent == "// Welcome to WaveRider IDE"
NewFileContent == "// New file"
EditorContents == {""}
Faults == {"none", "error", "network"}
RenameTargets == {PathC}

FileNode(path, name) ==
    [name |-> name, type |-> "file", path |-> path, children |-> <<>>]

DirectoryNode(path, name, children) ==
    [name |-> name, type |-> "directory", path |-> path, children |-> children]

IsPrefix(p, q) == Len(p) <= Len(q) /\ SubSeq(q, 1, Len(p)) = p

\* a path lies under a directory when the directory's path and a '/' start it
Under(dir, path) == IsPrefix(Append(dir, "/"), path)

Present(st, path) == st[path] # <<>>

EmptyStorage == [p \in FilePaths |-> <<>>]

\* the project directories a project is opened on
InitialStorages ==
    {[EmptyStorage EXCEPT ![PathZ] = <<"hi">>],
     [EmptyStorage EXCEPT ![PathZ] = <<"hi">>, ![PathC] = <<"hi">>]}

\* list(projectId) of the storage collaborator: the nested tree of the stored
\* paths, a directory for every path that has one.  The order is the
\* collaborator's: z before d before a.html, and in d the file c before the
\* directory e.
ListFiles(st) ==
    LET inE == IF Present(st, PathB) THEN <<FileNode(PathB, <<"b">>)>> ELSE <<>>
        inD == (IF Present(st, PathC) THEN <<FileNode(PathC, <<"c">>)>> ELSE <<>>)
               \o (IF inE # <<>> THEN <<DirectoryNode(PathE, <<"e">>, inE)>> ELSE <<>>)
    IN  (IF Present(st, PathZ) THEN <<FileNode(PathZ, <<"z">>)>> ELSE <<>>)
        \o (IF inD # <<>> THEN <<DirectoryNode(PathD, <<"d">>, inD)>> ELSE <<>>)
        \o (IF Present(st, PathH) THEN <<FileNode(PathH, PathH)>> ELSE <<>>)

\* a renderer that draws the children of a directory whatever its flag
RECURSIVE renderFileTree_AllOpen(_, _, _)
renderFileTree_AllOpen(fs, expanded, depth) ==
    IF fs = <<>> THEN <<>>
    ELSE <<[path |-> Head(fs).path, depth |-> depth]>>
         \o renderFileTree_AllOpen(Head(fs).children, expanded, depth + 1)
         \o renderFileTree_AllOpen(Tail(fs), expanded, depth)

\* renderFileTree(files, depth): the rows drawn, one per node, top to bottom
RECURSIVE renderFileTree(_, _, _)
renderFileTree(fs, expanded, depth) ==
    IF fs = <<>> THEN <<>>
    ELSE LET file == Head(fs)
             isExpanded == file.path \in expanded
             isDirectory == file.type = "directory"
         IN  <<[path |-> file.path, depth |-> depth]>>
             \o (IF isDirectory /\ isExpanded /\ Len(file.children) > 0
                 THEN renderFileTree(file.children, expanded, depth + 1)
                 ELSE <<>>)
             \o renderFileTree(Tail(fs), expanded, depth)

\* every node of a tree, in pre-order
RECURSIVE Nodes(_)
Nodes(fs) ==
    IF fs = <<>> THEN <<>>
    ELSE <<Head(fs)>> \o Nodes(Head(fs).children) \o Nodes(Tail(fs))

\* the nodes that have a row, and with it click, rename and delete handlers
VisibleNodes ==
    LET rows == renderFileTree(files, expandedDirectories, 0)
        all == Nodes(files)
    IN  {all[k] : k \in {j \in DOMAIN all :
                            \E r \in DOMAIN rows : rows[r].path = all[j].path}}

\* a call of an async file function that awaits the response to a request:
\* op is the function, pc the request awaited, path / to / content the
\* arguments, cur the currentFile of the render the call was made from (kept
\* for the functions that read it after an await), resp the response once
\* the backend has answered
FileOp(op, pc, path, to, content, cur) ==
    [op |-> op, pc |-> pc, path |-> path, to |-> to, content |-> content,
     cur |-> cur, resp |-> "", tree |-> <<>>]

\* loadProjectFiles up to its await
LoadOp == FileOp("load", "list", <<>>, <<>>, "", <<>>)

\* ------------------------------------------------------------ the store
\* useWaveRiderStore of src/src/store/waverider-store.ts.  null is <<>>, an
\* optional value is a sequence of length 0 or 1.  A Date is <<"Date", t>>;
\* JSON.stringify writes it as its ISO string, <<"string", t>>, and JSON.parse
\* has no reviver, so it reads the string back as a string.
StorePaths == {"a", "b"}
StoreAgents == {"coder"}
StoreTimes == {1}

DateOf(t) == <<"Date", t>>
ToISOString(d) == IF d[1] = "Date" THEN <<"string", d[2]>> ELSE d

StoreProject(id, t) == [id |-> id, name |-> "demo", lastOpened |-> DateOf(t)]

initialState ==
    [projects       |-> <<>>,
     recentProjects |-> <<>>,
     openFiles      |-> <<>>,
     activeFile     |-> <<>>,
     currentFile    |-> <<>>,
     fileContent    |-> [p \in StorePaths |-> <<>>],
     aiConnected    |-> FALSE,
     activeAgents   |-> <<>>,
     agentStatus    |-> [a \in StoreAgents |-> <<>>],
     sidebarOpen    |-> TRUE,
     panelOpen      |-> FALSE,
     terminalOpen   |-> FALSE,
     aiChatOpen     |-> FALSE,
     terminalOutput |-> <<>>,
     chatHistory    |-> <<>>,
     initialized    |-> FALSE,
     loading        |-> FALSE,
     error          |-> <<>>]

\* the part of the state the persist middleware writes
partialize(state) ==
    [projects       |-> state.projects,
     recentProjects |-> state.recentProjects,
     currentFile    |-> state.currentFile,
     fileContent    |-> state.fileContent,
     openFiles      |-> state.openFiles,
     activeFile     |-> state.activeFile,
     terminalOutput |-> state.terminalOutput,
     chatHistory    |-> state.chatHistory,
     sidebarOpen    |-> state.sidebarOpen,
     panelOpen      |-> state.panelOpen,
     terminalOpen   |-> state.terminalOpen,
     aiChatOpen     |-> state.aiChatOpen]

StringifyProjects(ps) ==
    [k \in DOMAIN ps |-> [ps[k] EXCEPT !.lastOpened = ToISOString(@)]]

StringifyChat(ms) ==
    [k \in DOMAIN ms |-> [ms[k] EXCEPT !.timestamp = ToISOString(@)]]

\* createJSONStorage: JSON.stringify on write, JSON.parse on read
Stringify(part) ==
    [part EXCEPT !.projects       = StringifyProjects(@),
                 !.recentProjects = StringifyProjects(@),
                 !.chatHistory    = StringifyChat(@)]

\* persist merges the parsed item over the state the store is created with
Merge(current, persisted) ==
    [k \in DOMAIN current |->
        IF k \in DOMAIN persisted THEN persisted[k] ELSE current[k]]

\* ------------------------------------------------------------------- state
NewTask(sid, task, agent, t) ==
    [session_id |-> sid, task |-> task, agent_type |-> agent, status |-> "pending",
     progress |-> <<>>, result |-> <<>>, created_at |-> t, completed_at |-> <<>>]

Init ==
    /\ currentProject = <<>>
    /\ taskInput = <<>>
    /\ selectedAgent = "coder"
    /\ activeTasks = <<>>
    /\ terminalOutput = <<>>
    /\ socketRef = "connecting"
    /\ projectReq = "sent"
    /\ taskReqs = <<>>
    /\ nextSession = 1
    /\ clock = 1
    /\ storage = EmptyStorage
    /\ files = <<>>
    /\ currentFile = <<>>
    /\ fileContent = WelcomeContent
    /\ isLoading = FALSE
    /\ isCreatingFile = FALSE
    /\ newFileName = <<>>
    /\ expandedDirectories = {}
    /\ fileOps = <<>>
    /\ store = initialState
    /\ localStorage = <<>>
    /\ chatMessages = <<>>
    /\ chatInput = <<>>
    /\ isChatLoading = FALSE
    /\ chatReqs = <<>>
    /\ timers = <<>>

CanLog == Len(terminalOutput) < MaxLog

\* ------------------------------------------------------------- UI setters
SetTaskInput(s) ==
    /\ taskInput' = s
    /\ UNCHANGED <<currentProject, selectedAgent, activeTasks, terminalOutput,
                   socketRef, projectReq, taskReqs, nextSession, clock>>
    /\ UNCHANGED <<fileVars, storeVars, chatVars>>

SetSelectedAgent(a) ==
    /\ selectedAgent' = a
    /\ UNCHANGED <<currentProject, taskInput, activeTasks, terminalOutput,
                   socketRef, projectReq, taskReqs, nextSession, clock>>
    /\ UNCHANGED <<fileVars, storeVars, chatVars>>

\* ------------------------------------------------ initializeDefaultProject
\* continuation of the POST /api/projects issued on mount
InitializeDefaultProject(outcome) ==
    /\ projectReq = "sent"
    /\ projectReq' = "done"
    /\ CASE outcome = "ok" ->
              /\ CanLog
              /\ currentProject' = <<"P1">>
              /\ terminalOutput' = addToTerminal(terminalOutput, "project_created")
              /\ fileOps' = Append(fileOps, LoadOp)
         [] outcome = "rejected" ->
              UNCHANGED <<currentProject, terminalOutput, fileOps>>
         [] outcome = "threw" ->
              /\ CanLog
              /\ terminalOutput' = addToTerminal(terminalOutput, "project_failed")
              /\ UNCHANGED <<currentProject, fileOps>>
    /\ UNCHANGED <<taskInput, selectedAgent, activeTasks, socketRef, taskReqs,
                   nextSession, clock>>
    /\ UNCHANGED <<storage, files, currentFile, fileContent, isLoading,
                   isCreatingFile, newFileName, expandedDirectories, storeVars, chatVars>>

\* --------------------------------------------------------- executeAgentTask
\* executeAgentTask up to its await: the guard and the POST /api/tasks.
\* The request keeps the taskInput and selectedAgent of the calling render;
\* session_id 0 marks a request the backend has not acknowledged.
ExecuteAgentTask ==
    IF Falsy(trim(taskInput)) \/ currentProject = <<>>
    THEN UNCHANGED vars
    ELSE /\ Len(taskReqs) < MaxInFlight
         /\ taskReqs' = Append(taskReqs,
                [task |-> taskInput, agent_type |-> selectedAgent, session_id |-> 0])
         /\ UNCHANGED <<currentProject, taskInput, selectedAgent, activeTasks,
                        terminalOutput, socketRef, projectReq, nextSession, clock,
                        fileVars, storeVars, chatVars>>

\* a backend that hands out the same session id again
IssueSessionId_Reused(next) == 1

\* the backend issues a session id that it has not issued before
IssueSessionId(next) == next

\* the backend accepts the i-th POST /api/tasks and answers with a session id
BackendSubmit(i) ==
    /\ i \in DOMAIN taskReqs
    /\ taskReqs[i].session_id = 0
    /\ taskReqs' = [taskReqs EXCEPT ![i].session_id = IssueSessionId(nextSession)]
    /\ nextSession' = nextSession + 1
    /\ UNCHANGED <<currentProject, taskInput, selectedAgent, activeTasks,
                   terminalOutput, socketRef, projectReq, clock>>
    /\ UNCHANGED <<fileVars, storeVars, chatVars>>

\* an updater that puts the new record in the list twice
InsertTask_Twice(prev, newTask) == <<newTask, newTask>> \o prev

\* a registry that keeps only the task created last
InsertTask_KeepsLatest(prev, newTask) == <<newTask>>

\* setActiveTasks(prev => [newTask, ...prev])
InsertTask(prev, newTask) == <<newTask>> \o prev

\* executeAgentTask after its await: response.ok, !response.ok, or the catch
\* (a failed fetch, also one whose answer was lost after the backend accepted)
ExecuteAgentTaskResume(i, outcome) ==
    /\ i \in DOMAIN taskReqs
    /\ taskReqs' = RemoveAt(taskReqs, i)
    /\ CASE outcome = "ok" ->
              /\ taskReqs[i].session_id # 0
              /\ CanLog
              /\ activeTasks' = InsertTask(activeTasks,
                    NewTask(taskReqs[i].session_id, taskReqs[i].task,
                            taskReqs[i].agent_type, clock))
              /\ clock' = clock + 1
              /\ taskInput' = <<>>
              /\ terminalOutput' = addToTerminal(terminalOutput, "task_started")
         [] outcome = "rejected" ->
              /\ taskReqs[i].session_id = 0
              /\ UNCHANGED <<activeTasks, taskInput, terminalOutput, clock>>
         [] outcome = "threw" ->
              /\ CanLog
              /\ terminalOutput' = addToTerminal(terminalOutput, "task_failed")
              /\ UNCHANGED <<activeTasks, taskInput, clock>>
    /\ UNCHANGED <<currentProject, selectedAgent, socketRef, projectReq, nextSession>>
    /\ UNCHANGED <<fileVars, storeVars, chatVars>>

\* ---------------------------------------------------------------- WebSocket
\* socketRef.current.onopen
OnOpen ==
    /\ socketRef = "connecting"
    /\ CanLog
    /\ socketRef' = "open"
    /\ terminalOutput' = addToTerminal(terminalOutput, "connected")
    /\ UNCHANGED <<currentProject, taskInput, selectedAgent, activeTasks,
                   projectReq, taskReqs, nextSession, clock>>
    /\ UNCHANGED <<fileVars, storeVars, chatVars>>

\* socketRef.current.onerror; the browser closes the socket after it
OnError ==
    /\ socketRef \in {"connecting", "open"}
    /\ CanLog
    /\ socketRef' = "closing"
    /\ terminalOutput' = addToTerminal(terminalOutput, "ws_error")
    /\ UNCHANGED <<currentProject, taskInput, selectedAgent, activeTasks,
                   projectReq, taskReqs, nextSession, clock>>
    /\ UNCHANGED <<fileVars, storeVars, chatVars>>

\* an onclose that also drops the task list
OnClose_DropsTasks ==
    /\ socketRef \in {"open", "closing"}
    /\ CanLog
    /\ socketRef' = "closed"
    /\ activeTasks' = <<>>
    /\ terminalOutput' = addToTerminal(terminalOutput, "disconnected")
    /\ UNCHANGED <<currentProject, taskInput, selectedAgent,
                   projectReq, taskReqs, nextSession, clock>>
    /\ UNCHANGED <<fileVars, storeVars, chatVars>>

\* socketRef.current.onclose
OnClose ==
    /\ socketRef \in {"open", "closing"}
    /\ CanLog
    /\ socketRef' = "closed"
    /\ terminalOutput' = addToTerminal(terminalOutput, "disconnected")
    /\ UNCHANGED <<currentProject, taskInput, selectedAgent, activeTasks,
                   projectReq, taskReqs, nextSession, clock>>
    /\ UNCHANGED <<fileVars, storeVars, chatVars>>

\* handleAgentProgress(data)
handleAgentProgress(data) ==
    IF HasSession(data)
    THEN /\ CanLog
         /\ activeTasks' = ApplyProgress(activeTasks, data.data[1])
         /\ terminalOutput' = addToTerminal(terminalOutput, "agent_update")
    ELSE UNCHANGED <<activeTasks, terminalOutput>>

\* an onmessage without the test of data.type
OnMessage_AnyKind(frame) ==
    /\ socketRef = "open"
    /\ LET parsed == JSONparse(frame) IN
         IF parsed.threw \/ ReadTypeThrows(parsed.value)
         THEN UNCHANGED <<activeTasks, terminalOutput>>
         ELSE handleAgentProgress(parsed.value)
    /\ UNCHANGED <<currentProject, taskInput, selectedAgent, socketRef,
                   projectReq, taskReqs, nextSession, clock>>
    /\ UNCHANGED <<fileVars, storeVars, chatVars>>

\* socketRef.current.onmessage, called with each frame the backend pushes on
\* the open connection, in the order sent
OnMessage(frame) ==
    /\ socketRef = "open"
    /\ LET parsed == JSONparse(frame) IN
         IF parsed.threw \/ ReadTypeThrows(parsed.value)
         THEN UNCHANGED <<activeTasks, terminalOutput>>
         ELSE IF parsed.value.type = "agent_progress"
              THEN handleAgentProgress(parsed.value)
              ELSE UNCHANGED <<activeTasks, terminalOutput>>
    /\ UNCHANGED <<currentProject, taskInput, selectedAgent, socketRef,
                   projectReq, taskReqs, nextSession, clock>>
    /\ UNCHANGED <<fileVars, storeVars, chatVars>>

\* ------------------------------------------------------ terminal transitions
IsTerminal(status) == status \in {"completed", "failed"}

\* a terminal transition that stores its outcome on every application
Terminate_Overwrites(prev, sid, status, result, t) ==
    [i \in DOMAIN prev |->
        IF prev[i].session_id = sid
        THEN [prev[i] EXCEPT !.status = status, !.result = <<result>>,
                             !.completed_at = <<t>>]
        ELSE prev[i]]

\* Complete / Fail of the task registry: the first application to a live task
\* stores the outcome, any later one is a no-op
Terminate(prev, sid, status, result, t) ==
    [i \in DOMAIN prev |->
        IF prev[i].session_id = sid /\ ~IsTerminal(prev[i].status)
        THEN [prev[i] EXCEPT !.status = status, !.result = <<result>>,
                             !.completed_at = <<t>>]
        ELSE prev[i]]

Complete(sid, result) ==
    /\ activeTasks' = Terminate(activeTasks, sid, "completed", result, clock)
    /\ clock' = IF activeTasks' = activeTasks THEN clock ELSE clock + 1
    /\ UNCHANGED <<currentProject, taskInput, selectedAgent, terminalOutput,
                   socketRef, projectReq, taskReqs, nextSession>>
    /\ UNCHANGED <<fileVars, storeVars, chatVars>>

Fail(sid, reason) ==
    /\ activeTasks' = Terminate(activeTasks, sid, "failed", reason, clock)
    /\ clock' = IF activeTasks' = activeTasks THEN clock ELSE clock + 1
    /\ UNCHANGED <<currentProject, taskInput, selectedAgent, terminalOutput,
                   socketRef, projectReq, taskReqs, nextSession>>
    /\ UNCHANGED <<fileVars, storeVars, chatVars>>

\* ---------------------------------------------------------- file functions
CanOp == Len(fileOps) < MaxOps

CanLogFile == Len(terminalOutput) < MaxFileLog

\* the New File button, and Cancel or Escape in the dialog
SetIsCreatingFile(b) ==
    /\ isCreatingFile' = b
    /\ UNCHANGED <<currentProject, terminalOutput, taskVars, storeVars, chatVars>>
    /\ UNCHANGED <<storage, files, currentFile, fileContent, isLoading,
                   newFileName, expandedDirectories, fileOps>>

\* onChange of the file name input, which is drawn while isCreatingFile
SetNewFileName(s) ==
    /\ isCreatingFile
    /\ newFileName' = s
    /\ UNCHANGED <<currentProject, terminalOutput, taskVars, storeVars, chatVars>>
    /\ UNCHANGED <<storage, files, currentFile, fileContent, isLoading,
                   isCreatingFile, expandedDirectories, fileOps>>

\* onChange of the editor: setFileContent(value || '')
SetFileContent(c) ==
    /\ fileContent' = c
    /\ UNCHANGED <<currentProject, terminalOutput, taskVars, storeVars, chatVars>>
    /\ UNCHANGED <<storage, files, currentFile, isLoading, isCreatingFile,
                   newFileName, expandedDirectories, fileOps>>

\* createNewFile up to its await, called from the Create button or Enter
CreateNewFile ==
    /\ isCreatingFile
    /\ IF Falsy(trim(newFileName)) \/ currentProject = <<>>
       THEN UNCHANGED fileOps
       ELSE /\ CanOp
            /\ fileOps' = Append(fileOps,
                  FileOp("create", "write", newFileName, <<>>, NewFileContent,
                         <<>>))
    /\ UNCHANGED <<currentProject, terminalOutput, taskVars, storeVars, chatVars>>
    /\ UNCHANGED <<storage, files, currentFile, fileContent, isLoading,
                   isCreatingFile, newFileName, expandedDirectories>>

\* deleteFile up to its await, called from the Delete button of a row;
\* confirmed is the answer to confirm()
DeleteFile(file, confirmed) ==
    /\ file \in VisibleNodes
    /\ IF currentProject = <<>> \/ ~confirmed
       THEN UNCHANGED fileOps
       ELSE /\ CanOp
            /\ fileOps' = Append(fileOps,
                  FileOp("delete", "delete", file.path, <<>>, "", currentFile))
    /\ UNCHANGED <<currentProject, terminalOutput, taskVars, storeVars, chatVars>>
    /\ UNCHANGED <<storage, files, currentFile, fileContent, isLoading,
                   isCreatingFile, newFileName, expandedDirectories>>

\* renameFile up to its first await, called with Enter in the rename input of
\* a row (the rename input itself, isRenamingFile and renameValue, is not kept)
RenameFile(file, newName) ==
    /\ file \in VisibleNodes
    /\ IF currentProject = <<>> \/ Falsy(trim(newName))
       THEN UNCHANGED fileOps
       ELSE /\ CanOp
            /\ fileOps' = Append(fileOps,
                  FileOp("rename", "read", file.path, newName, "", currentFile))
    /\ UNCHANGED <<currentProject, terminalOutput, taskVars, storeVars, chatVars>>
    /\ UNCHANGED <<storage, files, currentFile, fileContent, isLoading,
                   isCreatingFile, newFileName, expandedDirectories>>

\* a toggle that collapses every directory
ToggleExpanded_Reset(prev, dirPath) ==
    IF dirPath \in prev THEN {} ELSE prev \cup {dirPath}

\* the updater of toggleDirectory
ToggleExpanded(prev, dirPath) ==
    IF dirPath \in prev THEN prev \ {dirPath} ELSE prev \cup {dirPath}

\* toggleDirectory(dirPath)
toggleDirectory(dirPath) ==
    /\ CanLogFile
    /\ expandedDirectories' = ToggleExpanded(expandedDirectories, dirPath)
    /\ terminalOutput' = addToTerminal(terminalOutput,
          IF dirPath \in expandedDirectories THEN "collapsed" ELSE "expanded")
    /\ UNCHANGED <<isLoading, fileOps>>

\* openFile(file) up to its await
openFile(file) ==
    /\ IF file.type = "directory"
       THEN toggleDirectory(file.path)
       ELSE IF currentProject = <<>>
       THEN /\ CanLogFile
            /\ terminalOutput' = addToTerminal(terminalOutput, "no_project")
            /\ UNCHANGED <<expandedDirectories, isLoading, fileOps>>
       ELSE /\ CanLogFile
            /\ CanOp
            /\ terminalOutput' = addToTerminal(terminalOutput, "opening")
            /\ isLoading' = TRUE
            /\ fileOps' = Append(fileOps,
                  FileOp("open", "read", file.path, <<>>, "", <<>>))
            /\ UNCHANGED expandedDirectories
    /\ UNCHANGED <<currentProject, taskVars, storeVars>>
    /\ UNCHANGED <<storage, files, currentFile, fileContent, isCreatingFile,
                   newFileName>>

\* openFile called with the node of a row of the tree
OpenFile(file) ==
    /\ file \in VisibleNodes
    /\ openFile(file)
    /\ UNCHANGED chatVars

\* the Save button: disabled={!currentFile || isLoading}
SaveDisabled == Falsy(currentFile) \/ isLoading

\* saveFile up to its await, called from the Save button, which is disabled
\* while !currentFile || isLoading
SaveFile ==
    /\ ~(Falsy(currentFile) \/ isLoading)
    /\ IF currentProject = <<>> \/ Falsy(currentFile)
       THEN UNCHANGED <<isLoading, fileOps>>
       ELSE /\ CanOp
            /\ isLoading' = TRUE
            /\ fileOps' = Append(fileOps,
                  FileOp("save", "write", currentFile, <<>>, fileContent,
                         <<>>))
    /\ UNCHANGED <<currentProject, terminalOutput, taskVars, storeVars, chatVars>>
    /\ UNCHANGED <<storage, files, currentFile, fileContent, isCreatingFile,
                   newFileName, expandedDirectories>>

\* the Refresh button: currentProject && loadProjectFiles(currentProject.id)
Refresh ==
    /\ currentProject # <<>>
    /\ CanOp
    /\ fileOps' = Append(fileOps, LoadOp)
    /\ UNCHANGED <<currentProject, terminalOutput, taskVars, storeVars, chatVars>>
    /\ UNCHANGED <<storage, files, currentFile, fileContent, isLoading,
                   isCreatingFile, newFileName, expandedDirectories>>

\* ------------------------------------------------------ storage collaborator
\* delete(path): removes the file, or every file under the directory
Removed(st, path) ==
    [p \in FilePaths |-> IF p = path \/ Under(path, p) THEN <<>> ELSE st[p]]

Exists(st, path) == \E p \in FilePaths : Present(st, p) /\ (p = path \/ Under(path, p))

\* the backend answers the request the i-th call awaits.  With fault "error"
\* it answers with a non-success status, with fault "network" the fetch
\* rejects; either way the storage is left as it was.
BackendFiles(i, fault) ==
    /\ i \in DOMAIN fileOps
    /\ fileOps[i].resp = ""
    /\ LET o == fileOps[i]
           answer(resp, content, tree) ==
               [fileOps EXCEPT ![i].resp = resp, ![i].content = content,
                               ![i].tree = tree]
       IN  CASE fault = "network" ->
                  /\ fileOps' = answer("threw", o.content, <<>>)
                  /\ UNCHANGED storage
             [] fault = "error" ->
                  /\ fileOps' = answer("rejected", o.content, <<>>)
                  /\ UNCHANGED storage
             [] fault = "none" /\ o.pc = "read" ->
                  /\ fileOps' = IF o.path \in FilePaths /\ Present(storage, o.path)
                                THEN answer("ok", storage[o.path][1], <<>>)
                                ELSE answer("rejected", o.content, <<>>)
                  /\ UNCHANGED storage
             [] fault = "none" /\ o.pc = "write" ->
                  LET target == IF o.op = "rename" THEN o.to ELSE o.path IN
                  IF target \in FilePaths
                  THEN /\ storage' = [storage EXCEPT ![target] = <<o.content>>]
                       /\ fileOps' = answer("ok", o.content, <<>>)
                  ELSE /\ fileOps' = answer("rejected", o.content, <<>>)
                       /\ UNCHANGED storage
             [] fault = "none" /\ o.pc = "delete" ->
                  IF Exists(storage, o.path)
                  THEN /\ storage' = Removed(storage, o.path)
                       /\ fileOps' = answer("ok", o.content, <<>>)
                  ELSE /\ fileOps' = answer("rejected", o.content, <<>>)
                       /\ UNCHANGED storage
             [] fault = "none" /\ o.pc = "list" ->
                  /\ fileOps' = answer("ok", o.content, ListFiles(storage))
                  /\ UNCHANGED storage
    /\ UNCHANGED <<currentProject, terminalOutput, taskVars, storeVars, chatVars>>
    /\ UNCHANGED <<files, currentFile, fileContent, isLoading, isCreatingFile,
                   newFileName, expandedDirectories>>

\* --------------------------------------------------- continuations of awaits
\* the call goes on to await its next request
Await(i, pc, content) ==
    [fileOps EXCEPT ![i].pc = pc, ![i].content = content, ![i].resp = "",
                    ![i].tree = <<>>]

Log(message) == CanLogFile /\ terminalOutput' = addToTerminal(terminalOutput, message)

\* loadProjectFiles after its await: setFiles(data.files || []) on success,
\* nothing on a non-success status, a terminal line on a rejected fetch
LoadedFiles(o) == IF o.resp = "ok" THEN o.tree ELSE files

LoadedLog(o) ==
    IF o.resp = "threw" THEN Log("load_failed") ELSE UNCHANGED terminalOutput

\* loadProjectFiles called on its own (mount, Refresh) after its await
LoadProjectFilesResume(i) ==
    /\ i \in DOMAIN fileOps
    /\ fileOps[i].op = "load" /\ fileOps[i].resp # ""
    /\ files' = LoadedFiles(fileOps[i])
    /\ LoadedLog(fileOps[i])
    /\ fileOps' = RemoveAt(fileOps, i)
    /\ UNCHANGED <<currentProject, taskVars, storeVars, chatVars>>
    /\ UNCHANGED <<storage, currentFile, fileContent, isLoading, isCreatingFile,
                   newFileName, expandedDirectories>>

\* a createNewFile that resets its dialog whatever the answer to the write
CreateNewFileResume_ResetsDialog(i) ==
    /\ i \in DOMAIN fileOps
    /\ fileOps[i].op = "create" /\ fileOps[i].resp # ""
    /\ LET o == fileOps[i] IN
       CASE o.pc = "write" /\ o.resp = "ok" ->
              /\ Log("created")
              /\ fileOps' = Await(i, "list", o.content)
              /\ UNCHANGED <<files, newFileName, isCreatingFile>>
         [] o.pc = "write" /\ o.resp = "rejected" ->
              /\ fileOps' = RemoveAt(fileOps, i)
              /\ newFileName' = <<>>
              /\ isCreatingFile' = FALSE
              /\ UNCHANGED <<files, terminalOutput>>
         [] o.pc = "write" /\ o.resp = "threw" ->
              /\ Log("create_failed")
              /\ fileOps' = RemoveAt(fileOps, i)
              /\ newFileName' = <<>>
              /\ isCreatingFile' = FALSE
              /\ UNCHANGED files
         [] o.pc = "list" ->
              /\ files' = LoadedFiles(o)
              /\ LoadedLog(o)
              /\ newFileName' = <<>>
              /\ isCreatingFile' = FALSE
              /\ fileOps' = RemoveAt(fileOps, i)
    /\ UNCHANGED <<currentProject, taskVars, storeVars, chatVars>>
    /\ UNCHANGED <<storage, currentFile, fileContent, isLoading, expandedDirectories>>

\* createNewFile after the await of its write, and after the await of the
\* loadProjectFiles that follows an acknowledged write
CreateNewFileResume(i) ==
    /\ i \in DOMAIN fileOps
    /\ fileOps[i].op = "create" /\ fileOps[i].resp # ""
    /\ LET o == fileOps[i] IN
       CASE o.pc = "write" /\ o.resp = "ok" ->
              /\ Log("created")
              /\ fileOps' = Await(i, "list", o.content)
              /\ UNCHANGED <<files, newFileName, isCreatingFile>>
         [] o.pc = "write" /\ o.resp = "rejected" ->
              /\ fileOps' = RemoveAt(fileOps, i)
              /\ UNCHANGED <<files, newFileName, isCreatingFile, terminalOutput>>
         [] o.pc = "write" /\ o.resp = "threw" ->
              /\ Log("create_failed")
              /\ fileOps' = RemoveAt(fileOps, i)
              /\ UNCHANGED <<files, newFileName, isCreatingFile>>
         [] o.pc = "list" ->
              /\ files' = LoadedFiles(o)
              /\ LoadedLog(o)
              /\ newFileName' = <<>>
              /\ isCreatingFile' = FALSE
              /\ fileOps' = RemoveAt(fileOps, i)
    /\ UNCHANGED <<currentProject, taskVars, storeVars, chatVars>>
    /\ UNCHANGED <<storage, currentFile, fileContent, isLoading, expandedDirectories>>

\* deleteFile: if (currentFile === filePath) { setCurrentFile(''); setFileContent('') }
ClearIfOpen(cur, path, open, content) ==
    IF cur = path THEN <<<<>>, "">> ELSE <<open, content>>

\* deleteFile after the await of its delete, and after the await of the
\* loadProjectFiles that follows an acknowledged delete
DeleteFileResume(i) ==
    /\ i \in DOMAIN fileOps
    /\ fileOps[i].op = "delete" /\ fileOps[i].resp # ""
    /\ LET o == fileOps[i] IN
       CASE o.pc = "delete" /\ o.resp = "ok" ->
              /\ Log("deleted")
              /\ fileOps' = Await(i, "list", o.content)
              /\ UNCHANGED <<files, currentFile, fileContent>>
         [] o.pc = "delete" /\ o.resp = "rejected" ->
              /\ fileOps' = RemoveAt(fileOps, i)
              /\ UNCHANGED <<files, currentFile, fileContent, terminalOutput>>
         [] o.pc = "delete" /\ o.resp = "threw" ->
              /\ Log("delete_failed")
              /\ fileOps' = RemoveAt(fileOps, i)
              /\ UNCHANGED <<files, currentFile, fileContent>>
         [] o.pc = "list" ->
              /\ files' = LoadedFiles(o)
              /\ LoadedLog(o)
              /\ currentFile' = ClearIfOpen(o.cur, o.path, currentFile, fileContent)[1]
              /\ fileContent' = ClearIfOpen(o.cur, o.path, currentFile, fileContent)[2]
              /\ fileOps' = RemoveAt(fileOps, i)
    /\ UNCHANGED <<currentProject, taskVars, storeVars, chatVars>>
    /\ UNCHANGED <<storage, isLoading, isCreatingFile, newFileName,
                   expandedDirectories>>

\* renameFile after each of its awaits: the read of the old path, the write
\* of the new one, the delete of the old one (whose response is not looked
\* at), and the loadProjectFiles that follows
RenameFileResume(i) ==
    /\ i \in DOMAIN fileOps
    /\ fileOps[i].op = "rename" /\ fileOps[i].resp # ""
    /\ LET o == fileOps[i] IN
       CASE o.resp = "threw" /\ o.pc # "list" ->
              /\ Log("rename_failed")
              /\ fileOps' = RemoveAt(fileOps, i)
              /\ UNCHANGED <<files, currentFile>>
         [] o.pc = "read" /\ o.resp = "ok" ->
              /\ fileOps' = Await(i, "write", o.content)
              /\ UNCHANGED <<files, currentFile, terminalOutput>>
         [] o.pc = "write" /\ o.resp = "ok" ->
              /\ fileOps' = Await(i, "delete", o.content)
              /\ UNCHANGED <<files, currentFile, terminalOutput>>
         [] o.pc \in {"read", "write"} /\ o.resp = "rejected" ->
              /\ fileOps' = RemoveAt(fileOps, i)
              /\ UNCHANGED <<files, currentFile, terminalOutput>>
         [] o.pc = "delete" /\ o.resp \in {"ok", "rejected"} ->
              /\ Log("renamed")
              /\ fileOps' = Await(i, "list", o.content)
              /\ UNCHANGED <<files, currentFile>>
         [] o.pc = "list" ->
              /\ files' = LoadedFiles(o)
              /\ LoadedLog(o)
              /\ currentFile' = IF o.cur = o.path THEN o.to ELSE currentFile
              /\ fileOps' = RemoveAt(fileOps, i)
    /\ UNCHANGED <<currentProject, taskVars, storeVars, chatVars>>
    /\ UNCHANGED <<storage, fileContent, isLoading, isCreatingFile, newFileName,
                   expandedDirectories>>

\* an editor that shows a placeholder for an empty file
OrEmpty_Placeholder(content) == IF content = "" THEN WelcomeContent ELSE content

\* data.content || ''
OrEmpty(content) == IF content = "" THEN "" ELSE content

\* openFile after its await
OpenFileResume(i) ==
    /\ i \in DOMAIN fileOps
    /\ fileOps[i].op = "open" /\ fileOps[i].resp # ""
    /\ LET o == fileOps[i] IN
       IF o.resp = "ok"
       THEN /\ currentFile' = o.path
            /\ fileContent' = OrEmpty(o.content)
            /\ Log("opened")
       ELSE /\ Log("open_failed")
            /\ UNCHANGED <<currentFile, fileContent>>
    /\ isLoading' = FALSE
    /\ fileOps' = RemoveAt(fileOps, i)
    /\ UNCHANGED <<currentProject, taskVars, storeVars, chatVars>>
    /\ UNCHANGED <<storage, files, isCreatingFile, newFileName, expandedDirectories>>

\* saveFile after its await
SaveFileResume(i) ==
    /\ i \in DOMAIN fileOps
    /\ fileOps[i].op = "save" /\ fileOps[i].resp # ""
    /\ Log(CASE fileOps[i].resp = "ok" -> "saved"
             [] fileOps[i].resp = "rejected" -> "save_failed"
             [] fileOps[i].resp = "threw" -> "save_error")
    /\ isLoading' = FALSE
    /\ fileOps' = RemoveAt(fileOps, i)
    /\ UNCHANGED <<currentProject, taskVars, storeVars, chatVars>>
    /\ UNCHANGED <<storage, files, currentFile, fileContent, isCreatingFile,
                   newFileName, expandedDirectories>>

\* --------------------------------------------------------------- AI chat
\* A chat text is a sequence of characters.  A message keeps the sender, the
\* text and the created files listed under it.
ChatInputs == {<<>>, <<" ">>, <<"m">>}
CreatedLists == {<<>>, <<PathH>>, <<PathZ>>}
ChatOutcomes == {"ok", "error", "network"}

UserMessage(content) == [sender |-> "user", content |-> content, created |-> <<>>]

AiMessage(response, created) ==
    [sender |-> "ai", content |-> response, created |-> created]

\* an updater that puts the new message in front
AppendMessage_Prepends(prev, message) == <<message>> \o prev

\* setChatMessages(prev => [...prev, message])
AppendMessage(prev, message) == Append(prev, message)

\* String.prototype.includes and String.prototype.endsWith
includes(s, sub) ==
    \E k \in 1..(Len(s) - Len(sub) + 1) : SubSeq(s, k, k + Len(sub) - 1) = sub

endsWith(s, suffix) ==
    /\ Len(suffix) <= Len(s)
    /\ SubSeq(s, Len(s) - Len(suffix) + 1, Len(s)) = suffix

\* f.includes('App.') || f.includes('index.') || f.includes('main.') ||
\* f.endsWith('.html')
IsMainFile(f) ==
    \/ includes(f, <<"A", "p", "p", ".">>)
    \/ includes(f, <<"i", "n", "d", "e", "x", ".">>)
    \/ includes(f, <<"m", "a", "i", "n", ".">>)
    \/ endsWith(f, <<".", "h", "t", "m", "l">>)

\* data.files_created.find(...): the first main file, <<>> when there is none
FindMainFile(created) ==
    LET hits == SelectSeq(created, IsMainFile) IN
    IF hits = <<>> THEN <<>> ELSE <<Head(hits)>>

\* files.find(f => f.path === mainFile): the first node of the top level
\* with that path, <<>> when there is none
FindFile(fs, path) ==
    LET hits == SelectSeq(fs, LAMBDA f : f.path = path) IN
    IF hits = <<>> THEN <<>> ELSE <<Head(hits)>>

\* a call of sendChatMessage that awaits a response: pc is the request
\* awaited, message / project / files the chatInput, currentProject and files
\* of the render the call was made from
ChatReq ==
    [pc |-> "post", resp |-> "", message |-> chatInput,
     project |-> currentProject, files |-> files, created |-> <<>>,
     tree |-> <<>>]

SetChatInput(s) ==
    /\ ~isChatLoading
    /\ chatInput' = s
    /\ UNCHANGED <<chatMessages, isChatLoading, chatReqs, timers>>
    /\ UNCHANGED <<currentProject, terminalOutput, taskVars, fileVars, storeVars>>

\* sendChatMessage up to its await, called from the Send button or the Enter
\* key of the input, which are disabled while isChatLoading
SendChatMessage ==
    /\ ~isChatLoading
    /\ IF Falsy(trim(chatInput))
       THEN UNCHANGED vars
       ELSE /\ Len(chatMessages) + 2 <= MaxChat
            /\ chatMessages' = AppendMessage(chatMessages, UserMessage(chatInput))
            /\ isChatLoading' = TRUE
            /\ chatReqs' = Append(chatReqs, ChatReq)
            /\ UNCHANGED <<chatInput, timers>>
            /\ UNCHANGED <<currentProject, terminalOutput, taskVars, fileVars,
                           storeVars>>

\* the files the chat collaborator reports as created are in the project
Written(st, created) ==
    [p \in FilePaths |->
        IF \E k \in DOMAIN created : created[k] = p THEN <<"gen">> ELSE st[p]]

\* the chat collaborator answers the POST /api/chat the i-th call awaits
BackendChat(i, outcome, created) ==
    /\ i \in DOMAIN chatReqs
    /\ chatReqs[i].pc = "post" /\ chatReqs[i].resp = ""
    /\ CASE outcome = "network" ->
              /\ created = <<>>
              /\ chatReqs' = [chatReqs EXCEPT ![i].resp = "threw"]
              /\ UNCHANGED storage
         [] outcome = "error" ->
              /\ created = <<>>
              /\ chatReqs' = [chatReqs EXCEPT ![i].resp = "rejected"]
              /\ UNCHANGED storage
         [] outcome = "ok" ->
              /\ chatReqs' = [chatReqs EXCEPT ![i].resp = "ok",
                                              ![i].created = created]
              /\ storage' = Written(storage, created)
    /\ UNCHANGED <<chatMessages, chatInput, isChatLoading, timers>>
    /\ UNCHANGED <<currentProject, terminalOutput, taskVars, storeVars>>
    /\ UNCHANGED <<files, currentFile, fileContent, isLoading, isCreatingFile,
                   newFileName, expandedDirectories, fileOps>>

\* the storage collaborator answers the list request of the loadProjectFiles
\* that the i-th call awaits
BackendChatList(i, fault) ==
    /\ i \in DOMAIN chatReqs
    /\ chatReqs[i].pc = "list" /\ chatReqs[i].resp = ""
    /\ chatReqs' =
          CASE fault = "network" -> [chatReqs EXCEPT ![i].resp = "threw"]
            [] fault = "error" -> [chatReqs EXCEPT ![i].resp = "rejected"]
            [] fault = "none" -> [chatReqs EXCEPT ![i].resp = "ok",
                                                  ![i].tree = ListFiles(storage)]
    /\ UNCHANGED <<chatMessages, chatInput, isChatLoading, timers>>
    /\ UNCHANGED <<currentProject, terminalOutput, taskVars, fileVars, storeVars>>

\* the finally block: setTimeout(() => { setIsChatLoading(false);
\* setChatInput('') }, 800)
FinishTimer == [kind |-> "finish", mainFile |-> <<>>, files |-> <<>>]

\* setTimeout(() => { files.find(...) ... openFile(fileToOpen) }, 500): the
\* callback keeps the files of the render sendChatMessage was called from
OpenTimer(mainFile, captured) ==
    [kind |-> "open", mainFile |-> mainFile, files |-> captured]

LogLines(lines) ==
    /\ Len(terminalOutput) + Len(lines) <= MaxFileLog
    /\ terminalOutput' = terminalOutput \o lines

\* sendChatMessage after the await of its POST, and after the await of the
\* loadProjectFiles that follows a response with created files
SendChatMessageResume(i) ==
    /\ i \in DOMAIN chatReqs
    /\ chatReqs[i].resp # ""
    /\ LET o == chatReqs[i]
           reply == AiMessage(<<"r">>, o.created)
       IN  CASE o.pc = "post" /\ o.resp = "threw" ->
                  /\ LogLines(<<"chat_unavailable">>)
                  /\ chatReqs' = RemoveAt(chatReqs, i)
                  /\ timers' = Append(timers, FinishTimer)
                  /\ UNCHANGED <<chatMessages, files>>
             [] o.pc = "post" /\ o.resp = "rejected" ->
                  /\ chatReqs' = RemoveAt(chatReqs, i)
                  /\ timers' = Append(timers, FinishTimer)
                  /\ UNCHANGED <<chatMessages, files, terminalOutput>>
             [] o.pc = "post" /\ o.resp = "ok" ->
                  IF Len(o.created) > 0 /\ o.project # <<>>
                  THEN /\ LogLines(<<"refreshing">>)
                       /\ chatReqs' = [chatReqs EXCEPT ![i].pc = "list",
                                                       ![i].resp = ""]
                       /\ UNCHANGED <<chatMessages, files, timers>>
                  ELSE /\ chatMessages' = AppendMessage(chatMessages, reply)
                       /\ chatReqs' = RemoveAt(chatReqs, i)
                       /\ timers' = Append(timers, FinishTimer)
                       /\ UNCHANGED <<files, terminalOutput>>
             [] o.pc = "list" ->
                  LET mainFile == FindMainFile(o.created) IN
                  /\ files' = IF o.resp = "ok" THEN o.tree ELSE files
                  /\ LogLines((IF o.resp = "threw" THEN <<"load_failed">> ELSE <<>>)
                              \o <<"created_files">>)
                  /\ chatMessages' = AppendMessage(chatMessages, reply)
                  /\ chatReqs' = RemoveAt(chatReqs, i)
                  /\ timers' = timers
                               \o (IF mainFile # <<>>
                                   THEN <<OpenTimer(mainFile[1], o.files)>>
                                   ELSE <<>>)
                               \o <<FinishTimer>>
    /\ UNCHANGED <<chatInput, isChatLoading>>
    /\ UNCHANGED <<currentProject, taskVars, storeVars>>
    /\ UNCHANGED <<storage, currentFile, fileContent, isLoading, isCreatingFile,
                   newFileName, expandedDirectories, fileOps>>

\* the timer that is due first fires
FireTimer ==
    /\ timers # <<>>
    /\ timers' = Tail(timers)
    /\ LET t == Head(timers)
           fileToOpen == FindFile(t.files, t.mainFile)
       IN  IF t.kind = "finish"
           THEN /\ isChatLoading' = FALSE
                /\ chatInput' = <<>>
                /\ UNCHANGED <<chatMessages, chatReqs>>
                /\ UNCHANGED <<currentProject, terminalOutput, taskVars, fileVars,
                               storeVars>>
           ELSE IF fileToOpen # <<>>
           THEN /\ openFile(fileToOpen[1])
                /\ UNCHANGED <<chatMessages, chatInput, isChatLoading, chatReqs>>
           ELSE /\ UNCHANGED <<chatMessages, chatInput, isChatLoading, chatReqs>>
                /\ UNCHANGED <<currentProject, terminalOutput, taskVars, fileVars,
                               storeVars>>

\* ------------------------------------------------------------ specification
Outcomes == {"ok", "rejected", "threw"}

Next ==
    \/ \E s \in Inputs : SetTaskInput(s)
    \/ \E a \in AgentKinds : SetSelectedAgent(a)
    \/ \E o \in Outcomes : InitializeDefaultProject(o)
    \/ ExecuteAgentTask
    \/ \E i \in 1..MaxInFlight : BackendSubmit(i)
    \/ \E i \in 1..MaxInFlight, o \in Outcomes : ExecuteAgentTaskResume(i, o)
    \/ OnOpen
    \/ OnError
    \/ OnClose
    \/ \E f \in Frames : OnMessage(f)
    \/ \E sid \in SessionIds, r \in Results : Complete(sid, r)
    \/ \E sid \in SessionIds, r \in Reasons : Fail(sid, r)

Spec == Init /\ [][Next]_vars

\* the fairness of the event loop and of a reachable backend: a pending
\* handler runs, a request is answered, a connection attempt is accepted
LiveSpec ==
    /\ Spec
    /\ WF_vars(OnOpen)
    /\ WF_vars(\E o \in Outcomes : InitializeDefaultProject(o))
    /\ WF_vars(\E i \in 1..MaxInFlight : BackendSubmit(i))
    /\ WF_vars(\E i \in 1..MaxInFlight, o \in Outcomes : ExecuteAgentTaskResume(i, o))

\* ----------------------------------------------------- file tree of a project
\* The component once a project is open: initializeDefaultProject (or
\* importProject) has set currentProject and called loadProjectFiles.  The
\* project directory of the backend holds the files it was opened on.  The
\* terminal lines written until then are not kept.
ProjectOpen(storages) ==
    /\ currentProject = <<"P1">>
    /\ taskInput = <<>>
    /\ selectedAgent = "coder"
    /\ activeTasks = <<>>
    /\ terminalOutput = <<>>
    /\ socketRef = "connecting"
    /\ projectReq = "done"
    /\ taskReqs = <<>>
    /\ nextSession = 1
    /\ clock = 1
    /\ storage \in storages
    /\ files = <<>>
    /\ currentFile = <<>>
    /\ fileContent = WelcomeContent
    /\ isLoading = FALSE
    /\ isCreatingFile = FALSE
    /\ newFileName = <<>>
    /\ expandedDirectories = {}
    /\ fileOps = <<LoadOp>>
    /\ store = initialState
    /\ localStorage = <<>>
    /\ chatMessages = <<>>
    /\ chatInput = <<>>
    /\ isChatLoading = FALSE
    /\ chatReqs = <<>>
    /\ timers = <<>>

\* every node a listed tree can hold
AllNodes ==
    UNION {{n[k] : k \in DOMAIN n} :
              n \in {Nodes(ListFiles(st)) :
                        st \in [FilePaths -> {<<>>, <<"hi">>}]}}

\* creating, opening, editing and saving files: the component when a project
\* has just been opened, or when its file z has been opened in the editor
FileOpened ==
    /\ currentProject = <<"P1">>
    /\ taskInput = <<>>
    /\ selectedAgent = "coder"
    /\ activeTasks = <<>>
    /\ terminalOutput = <<>>
    /\ socketRef = "connecting"
    /\ projectReq = "done"
    /\ taskReqs = <<>>
    /\ nextSession = 1
    /\ clock = 1
    /\ storage = [EmptyStorage EXCEPT ![PathZ] = <<"hi">>]
    /\ files = ListFiles(storage)
    /\ currentFile = PathZ
    /\ fileContent = "hi"
    /\ isLoading = FALSE
    /\ isCreatingFile = FALSE
    /\ newFileName = <<>>
    /\ expandedDirectories = {}
    /\ fileOps = <<>>
    /\ store = initialState
    /\ localStorage = <<>>
    /\ chatMessages = <<>>
    /\ chatInput = <<>>
    /\ isChatLoading = FALSE
    /\ chatReqs = <<>>
    /\ timers = <<>>

EditInit == ProjectOpen({EmptyStorage}) \/ FileOpened

EditNext ==
    \/ \E b \in BOOLEAN : SetIsCreatingFile(b)
    \/ \E s \in NewFileNames : SetNewFileName(s)
    \/ \E c \in EditorContents : SetFileContent(c)
    \/ CreateNewFile
    \/ \E f \in AllNodes : OpenFile(f)
    \/ SaveFile
    \/ \E i \in 1..MaxOps, fault \in Faults : BackendFiles(i, fault)
    \/ \E i \in 1..MaxOps : LoadProjectFilesResume(i)
    \/ \E i \in 1..MaxOps : CreateNewFileResume(i)
    \/ \E i \in 1..MaxOps : OpenFileResume(i)
    \/ \E i \in 1..MaxOps : SaveFileResume(i)

EditSpec == EditInit /\ [][EditNext]_vars

\* opening and deleting the files of the tree, and reloading it
FileInit == ProjectOpen(InitialStorages)

FileNext ==
    \/ \E f \in AllNodes, b \in BOOLEAN : DeleteFile(f, b)
    \/ \E f \in AllNodes : OpenFile(f)
    \/ Refresh
    \/ \E i \in 1..MaxOps, fault \in Faults : BackendFiles(i, fault)
    \/ \E i \in 1..MaxOps : LoadProjectFilesResume(i)
    \/ \E i \in 1..MaxOps : DeleteFileResume(i)
    \/ \E i \in 1..MaxOps : OpenFileResume(i)

FileSpec == FileInit /\ [][FileNext]_vars

\* opening and renaming the files of the tree
RenameNext ==
    \/ \E f \in AllNodes, n \in RenameTargets : RenameFile(f, n)
    \/ \E f \in AllNodes : OpenFile(f)
    \/ \E i \in 1..MaxOps, fault \in Faults : BackendFiles(i, fault)
    \/ \E i \in 1..MaxOps : LoadProjectFilesResume(i)
    \/ \E i \in 1..MaxOps : RenameFileResume(i)
    \/ \E i \in 1..MaxOps : OpenFileResume(i)

RenameSpec == FileInit /\ [][RenameNext]_vars

\* opening the files and toggling the directories of a project with nested
\* directories
FullStorage == [p \in FilePaths |-> <<"hi">>]

TreeInit == ProjectOpen({FullStorage, [FullStorage EXCEPT ![PathC] = <<>>]})

TreeNext ==
    \/ \E f \in AllNodes : OpenFile(f)
    \/ \E i \in 1..MaxOps, fault \in Faults : BackendFiles(i, fault)
    \/ \E i \in 1..MaxOps : LoadProjectFilesResume(i)
    \/ \E i \in 1..MaxOps : OpenFileResume(i)

TreeSpec == TreeInit /\ [][TreeNext]_vars

\* ------------------------------------------------------- the store's actions
\* set(partial) of the persist middleware: the new state, then the item of
\* localStorage written from it
Set(state) ==
    /\ store' = state
    /\ localStorage' = <<Stringify(partialize(state))>>
    /\ UNCHANGED <<currentProject, terminalOutput, taskVars, fileVars, chatVars>>

Includes(seq, x) == \E k \in DOMAIN seq : seq[k] = x

Filter(seq, x) == SelectSeq(seq, LAMBDA y : y # x)

CanAdd(seq) == Len(seq) < MaxStoreLen

StoreAddProject(project) ==
    /\ CanAdd(store.projects)
    /\ Set([store EXCEPT
              !.projects = Append(@, project),
              !.recentProjects =
                  LET others == SelectSeq(@, LAMBDA q : q.id # project.id)
                      all == <<project>> \o others
                  IN  SubSeq(all, 1, IF Len(all) < 10 THEN Len(all) ELSE 10)])

\* an openFile that appends the path whether or not it is open
StoreOpenFile_AlwaysAppends(filePath) ==
    /\ Len(store.openFiles) <= Cardinality(StorePaths)
    /\ Set([store EXCEPT !.openFiles = Append(@, filePath),
                         !.activeFile = <<filePath>>])

StoreOpenFile(filePath) ==
    Set([store EXCEPT
           !.openFiles = IF Includes(@, filePath) THEN @ ELSE Append(@, filePath),
           !.activeFile = <<filePath>>])

StoreCloseFile(filePath) ==
    LET newOpenFiles == Filter(store.openFiles, filePath)
        newActiveFile ==
            IF store.activeFile = <<filePath>>
            THEN IF Len(newOpenFiles) > 0
                 THEN <<newOpenFiles[Len(newOpenFiles)]>>
                 ELSE <<>>
            ELSE store.activeFile
    IN  Set([store EXCEPT !.openFiles = newOpenFiles,
                          !.activeFile = newActiveFile])

StoreSetCurrentFile(file) ==
    Set([store EXCEPT !.currentFile = file])

StoreSetFileContent(filePath, content) ==
    Set([store EXCEPT !.fileContent[filePath] = <<content>>])

StoreSetAIConnected(b) ==
    Set([store EXCEPT !.aiConnected = b])

StoreSetAgentStatus(agentId, status) ==
    Set([store EXCEPT !.agentStatus[agentId] = <<status>>])

StoreAddActiveAgent(agentId) ==
    Set([store EXCEPT
           !.activeAgents = IF Includes(@, agentId) THEN @ ELSE Append(@, agentId)])

ToggleSidebar == Set([store EXCEPT !.sidebarOpen = ~@])

ToggleAIChat == Set([store EXCEPT !.aiChatOpen = ~@])

StoreAddToTerminal(message) ==
    /\ CanAdd(store.terminalOutput)
    /\ Set([store EXCEPT !.terminalOutput = Append(@, message)])

StoreAddToChatHistory(role, content) ==
    /\ CanAdd(store.chatHistory)
    /\ \E t \in StoreTimes :
           Set([store EXCEPT
                  !.chatHistory =
                      Append(@, [role |-> role, content |-> content,
                                 timestamp |-> DateOf(t)])])

StoreInitialize == Set([store EXCEPT !.initialized = TRUE])

StoreSetLoading(b) == Set([store EXCEPT !.loading = b])

StoreSetError(e) == Set([store EXCEPT !.error = e])

\* the page is reloaded: the store is created from initialState, and the
\* persist middleware merges the parsed item of localStorage over it
Reload ==
    /\ store' = IF localStorage = <<>>
                THEN initialState
                ELSE Merge(initialState, localStorage[1])
    /\ UNCHANGED <<localStorage, currentProject, terminalOutput, taskVars, fileVars,
                   chatVars>>

StoreNext ==
    \/ \E id \in {"P1"}, t \in StoreTimes : StoreAddProject(StoreProject(id, t))
    \/ \E p \in StorePaths : StoreOpenFile(p)
    \/ \E p \in StorePaths : StoreCloseFile(p)
    \/ \E f \in {<<>>, <<[path |-> "a"]>>} : StoreSetCurrentFile(f)
    \/ \E p \in {"a"} : StoreSetFileContent(p, "x")
    \/ \E b \in BOOLEAN : StoreSetAIConnected(b)
    \/ \E a \in StoreAgents : StoreSetAgentStatus(a, "busy")
    \/ \E a \in StoreAgents : StoreAddActiveAgent(a)
    \/ ToggleSidebar
    \/ ToggleAIChat
    \/ StoreAddToTerminal("m")
    \/ StoreAddToChatHistory("user", "hi")
    \/ StoreInitialize
    \/ \E b \in BOOLEAN : StoreSetLoading(b)
    \/ \E e \in {<<>>, <<"boom">>} : StoreSetError(e)
    \/ Reload

StoreSpec == Init /\ [][StoreNext]_vars

\* ------------------------------------------------------------ the AI chat
\* the component when a project is open and its files are listed; the
\* project holds z, or z and a.html
ChatStorages ==
    {[EmptyStorage EXCEPT ![PathZ] = <<"hi">>],
     [EmptyStorage EXCEPT ![PathZ] = <<"hi">>, ![PathH] = <<"hi">>]}

ChatInit ==
    /\ currentProject = <<"P1">>
    /\ taskInput = <<>>
    /\ selectedAgent = "coder"
    /\ activeTasks = <<>>
    /\ terminalOutput = <<>>
    /\ socketRef = "connecting"
    /\ projectReq = "done"
    /\ taskReqs = <<>>
    /\ nextSession = 1
    /\ clock = 1
    /\ storage \in ChatStorages
    /\ files = ListFiles(storage)
    /\ currentFile = <<>>
    /\ fileContent = WelcomeContent
    /\ isLoading = FALSE
    /\ isCreatingFile = FALSE
    /\ newFileName = <<>>
    /\ expandedDirectories = {}
    /\ fileOps = <<>>
    /\ store = initialState
    /\ localStorage = <<>>
    /\ chatMessages = <<>>
    /\ chatInput = <<>>
    /\ isChatLoading = FALSE
    /\ chatReqs = <<>>
    /\ timers = <<>>

ChatNext ==
    \/ \E s \in ChatInputs : SetChatInput(s)
    \/ SendChatMessage
    \/ \E i \in 1..MaxInFlight, o \in ChatOutcomes, c \in CreatedLists :
           BackendChat(i, o, c)
    \/ \E i \in 1..MaxInFlight, fault \in Faults : BackendChatList(i, fault)
    \/ \E i \in 1..MaxInFlight : SendChatMessageResume(i)
    \/ FireTimer
    \/ \E f \in AllNodes : OpenFile(f)
    \/ \E i \in 1..MaxOps, fault \in Faults : BackendFiles(i, fault)
    \/ \E i \in 1..MaxOps : OpenFileResume(i)

ChatSpec == ChatInit /\ [][ChatNext]_vars

\* ------------------------------------------------------------------ claims
\* a description is blank when it is empty or holds only white space
Blank(s) == \A k \in DOMAIN s : s[k] = " "

IsProgressFrame(f) == f.wellFormed /\ f.isObject /\ f.type = "agent_progress"

\* the frames handleAgentProgress acts on, and the frames of any other kind
SessionFrames == {f \in Frames : IsProgressFrame(f) /\ HasSession(f)}
OtherFrames == {f \in Frames : ~IsProgressFrame(f)}

Percentage(task) == task.progress[1].progress

Known(sid) == \E i \in DOMAIN activeTasks : activeTasks[i].session_id = sid

\* C1: a progress event leaves the status, the result and the stored progress
\* of every task that is already completed or failed as they were.
C1_TerminalTaskIgnoresProgress ==
    [][\A f \in Frames : OnMessage(f) =>
          \A i \in DOMAIN activeTasks :
              IsTerminal(activeTasks[i].status) =>
                  /\ activeTasks'[i].status = activeTasks[i].status
                  /\ activeTasks'[i].result = activeTasks[i].result
                  /\ activeTasks'[i].progress = activeTasks[i].progress]_vars

\* C2: after a progress event every stored percentage lies in 0..100 and is
\* not below the percentage the task had before the event.
C2_PercentageClampedAndMonotone ==
    [][\A f \in Frames : OnMessage(f) =>
          \A i \in DOMAIN activeTasks' :
              activeTasks'[i].progress # <<>> =>
                  /\ Percentage(activeTasks'[i]) \in 0..100
                  /\ activeTasks[i].progress # <<>> =>
                        Percentage(activeTasks[i]) <= Percentage(activeTasks'[i])]_vars

\* C3: a record enters the list with status pending, and a task that has
\* received a progress event is not pending.
C3_RunningAfterFirstProgress ==
    [][/\ \A i \in DOMAIN activeTasks' :
              ~Known(activeTasks'[i].session_id) => activeTasks'[i].status = "pending"
       /\ \A i \in DOMAIN activeTasks' :
              activeTasks'[i].progress # <<>> => activeTasks'[i].status # "pending"]_vars

\* C4: the session ids issued so far, those of the task list and those of
\* acknowledged requests whose answer is still on its way, are pairwise
\* different.
C4_SessionIdsUnique ==
    /\ \A i, j \in DOMAIN activeTasks :
          i # j => activeTasks[i].session_id # activeTasks[j].session_id
    /\ \A i, j \in DOMAIN taskReqs :
          (i # j /\ taskReqs[i].session_id # 0) =>
              taskReqs[i].session_id # taskReqs[j].session_id
    /\ \A i \in DOMAIN activeTasks, j \in DOMAIN taskReqs :
          activeTasks[i].session_id # taskReqs[j].session_id

C4_Witness == Len(activeTasks) >= 2

\* C5: a submit request is sent only for a description that is not blank and
\* with a current project, every record of the list has such a description,
\* and the continuation of an acknowledged submit puts exactly one record,
\* with status pending, in front of the list.
C5_CreateTaskGuard ==
    [][/\ Len(taskReqs') > Len(taskReqs) =>
              ~Blank(taskInput) /\ currentProject # <<>>
       /\ \A i \in DOMAIN activeTasks' : ~Blank(activeTasks'[i].task)
       /\ \A i \in DOMAIN taskReqs :
              ExecuteAgentTaskResume(i, "ok") =>
                  /\ Tail(activeTasks') = activeTasks
                  /\ Head(activeTasks').status = "pending"
                  /\ Head(activeTasks').session_id = taskReqs[i].session_id
       /\ Len(activeTasks') # Len(activeTasks) =>
              \E i \in DOMAIN taskReqs : ExecuteAgentTaskResume(i, "ok")]_vars

C5_Witness ==
    /\ Len(activeTasks) = 1
    /\ activeTasks[1].status = "pending"
    /\ taskInput = <<" ">>
    /\ taskReqs = <<>>
    /\ nextSession = 2

\* C6: a progress event whose session id no task has leaves the task list as
\* it was: no record changes and no record is added.
C6_UnknownSessionDiscarded ==
    [][\A f \in SessionFrames :
          (~Known(f.data[1].session_id) /\ OnMessage(f)) =>
              activeTasks' = activeTasks]_vars

C6_Witness ==
    /\ activeTasks # <<>>
    /\ \A i \in DOMAIN activeTasks : activeTasks[i].progress = <<>>
    /\ \E k \in DOMAIN terminalOutput : terminalOutput[k] = "agent_update"

\* C7: Complete or Fail applied to a task that is already completed or failed
\* leaves its status, its result and its completion time as they were.
C7_TerminalTransitionIdempotent ==
    [][(\/ \E sid \in SessionIds, r \in Results : Complete(sid, r)
        \/ \E sid \in SessionIds, r \in Reasons : Fail(sid, r)) =>
          \A i \in DOMAIN activeTasks :
              IsTerminal(activeTasks[i].status) =>
                  /\ activeTasks'[i].status = activeTasks[i].status
                  /\ activeTasks'[i].result = activeTasks[i].result
                  /\ activeTasks'[i].completed_at = activeTasks[i].completed_at]_vars

C7_Witness ==
    /\ \E i \in DOMAIN activeTasks : activeTasks[i].status = "completed"
    /\ \E i \in DOMAIN activeTasks : activeTasks[i].status = "failed"

\* C8: a frame that is not JSON, or whose type is not agent_progress, changes
\* nothing: the tasks, the terminal and every other variable keep their
\* values, and the socket stays open for the frames that follow.
C8_OnlyProgressConsumed ==
    [][\A f \in OtherFrames :
          OnMessage(f) => (UNCHANGED vars /\ socketRef' = "open")]_vars

\* an ignored frame leaves no trace, so every state with an open socket is
\* also the state after one; here a task has taken a progress event on it
C8_Witness ==
    /\ socketRef = "open"
    /\ \E i \in DOMAIN activeTasks : activeTasks[i].progress # <<>>

\* C9: a closed channel is eventually open again.
C9_Reconnects == (socketRef = "closed") ~> (socketRef = "open")

\* C10: the step that closes the channel appends the disconnect line to the
\* terminal and leaves every task record as it was.
C10_DisconnectKeepsTasks ==
    [][(socketRef # "closed" /\ socketRef' = "closed") =>
          /\ activeTasks' = activeTasks
          /\ terminalOutput' = Append(terminalOutput, "disconnected")]_vars

C10_Witness ==
    /\ socketRef = "closed"
    /\ terminalOutput[Len(terminalOutput)] = "disconnected"
    /\ \E i \in DOMAIN activeTasks : activeTasks[i].status = "completed"

\* -------------------------------------------------------- file tree claims
InTreeOf(fs, path) == \E k \in DOMAIN Nodes(fs) : Nodes(fs)[k].path = path

InTree(path) == InTreeOf(files, path)

\* C11: createNewFile called with a name that the tree already holds sends no
\* request, so that no write reaches the storage and the stored file keeps
\* its content.
C11_CreateConflict ==
    [][(CreateNewFile /\ InTree(newFileName)) => fileOps' = fileOps]_vars

\* C12: in createNewFile the tree changes only in the reload that follows an
\* acknowledged write; the call itself, and the continuation of a write that
\* was rejected or whose request failed, leave the tree, the file name of the
\* dialog and the dialog's open flag as they were.
C12_CreateAfterAck ==
    [][/\ CreateNewFile => files' = files
       /\ \A i \in DOMAIN fileOps :
             CreateNewFileResume(i) =>
                 /\ (fileOps[i].pc = "write" /\ fileOps[i].resp # "ok") =>
                        /\ files' = files
                        /\ newFileName' = newFileName
                        /\ isCreatingFile' = isCreatingFile
                        /\ Len(fileOps') < Len(fileOps)
                 /\ files' # files =>
                        /\ fileOps[i].pc = "list"
                        /\ Present(storage, fileOps[i].path)]_vars

\* a write was rejected: the dialog is still open on the name, the tree does
\* not hold it
C12_Witness ==
    /\ isCreatingFile
    /\ newFileName = PathZ
    /\ ~InTree(PathZ)
    /\ fileOps = <<>>
    /\ terminalOutput = <<"create_failed">>

\* C13: deleteFile leaves the tree and the open file alone until the storage
\* has acknowledged the delete; when it completes after the acknowledgement,
\* the open-file reference and the editor content are cleared if the deleted
\* path is the file that is open, and are left as they are otherwise.
C13_DeleteClearsOpenFile ==
    [][/\ (\E f \in AllNodes, b \in BOOLEAN : DeleteFile(f, b)) =>
             files' = files /\ currentFile' = currentFile
       /\ \A i \in DOMAIN fileOps :
             DeleteFileResume(i) =>
                 /\ (fileOps[i].pc = "delete" /\ fileOps[i].resp # "ok") =>
                        /\ files' = files
                        /\ currentFile' = currentFile
                        /\ fileContent' = fileContent
                 /\ fileOps[i].pc = "list" =>
                        IF currentFile = fileOps[i].path
                        THEN currentFile' = <<>> /\ fileContent' = ""
                        ELSE currentFile' = currentFile /\ fileContent' = fileContent]_vars

\* C14: when the write of the new path of a rename was rejected or its
\* request failed, renameFile ends there: it sends no delete, the storage,
\* the tree and the open-file reference stay as they were, and a line is
\* appended to the terminal.
C14_RenameWriteFails ==
    [][\A i \in DOMAIN fileOps :
          (/\ fileOps[i].pc = "write"
           /\ fileOps[i].resp \in {"rejected", "threw"}
           /\ RenameFileResume(i)) =>
              /\ fileOps' = RemoveAt(fileOps, i)
              /\ storage' = storage
              /\ files' = files
              /\ currentFile' = currentFile
              /\ Len(terminalOutput') = Len(terminalOutput) + 1]_vars

\* C15: when the delete of the old path of a rename was rejected or its
\* request failed, the storage keeps both files, and renameFile either goes
\* on to reload the tree or ends with a tree that shows both paths; the
\* reload that follows puts the listed tree in place.
C15_RenameDeleteFails ==
    [][\A i \in DOMAIN fileOps :
          /\ (/\ fileOps[i].pc = "delete"
              /\ fileOps[i].resp \in {"rejected", "threw"}
              /\ RenameFileResume(i)) =>
                 /\ storage' = storage
                 /\ \/ /\ i \in DOMAIN fileOps'
                       /\ fileOps'[i].op = "rename"
                       /\ fileOps'[i].pc = "list"
                    \/ /\ InTreeOf(files', fileOps[i].path)
                       /\ InTreeOf(files', fileOps[i].to)
          /\ (/\ fileOps[i].pc = "list"
              /\ fileOps[i].resp = "ok"
              /\ RenameFileResume(i)) => files' = fileOps[i].tree]_vars

\* C16: a click on a directory flips the expansion flag of that directory and
\* of no other, sends no request and leaves the storage, the tree, the open
\* file and the editor content as they were; a second toggle of the same
\* path gives back the set of expanded directories.
C16_ToggleOnlyFlips ==
    [][\A f \in AllNodes :
          (f.type = "directory" /\ OpenFile(f)) =>
              /\ expandedDirectories' =
                    (expandedDirectories \ {f.path}) \cup ({f.path} \ expandedDirectories)
              /\ UNCHANGED <<storage, files, currentFile, fileContent, fileOps>>
              /\ ToggleExpanded(expandedDirectories', f.path) = expandedDirectories]_vars

\* d was expanded, then e, then d was collapsed: e keeps its flag
C16_Witness ==
    /\ expandedDirectories = {PathE}
    /\ terminalOutput = <<"expanded", "expanded", "collapsed">>

\* the directories of the tree above a node
AncestorsOf(n) ==
    {Nodes(files)[k].path : k \in {j \in DOMAIN Nodes(files) :
        Nodes(files)[j].type = "directory" /\ Under(Nodes(files)[j].path, n.path)}}

AncestorsExpanded(n) == AncestorsOf(n) \subseteq expandedDirectories

\* C17: the rows drawn are the nodes of the listed tree in pre-order, siblings
\* in the listed order, restricted to the nodes all of whose ancestor
\* directories are expanded, each indented by the number of its ancestors.
C17_RenderOrderStableAndGated ==
    LET shown == SelectSeq(Nodes(files), AncestorsExpanded)
    IN  renderFileTree(files, expandedDirectories, 0) =
            [k \in DOMAIN shown |->
                [path |-> shown[k].path, depth |-> Cardinality(AncestorsOf(shown[k]))]]

\* the nested tree is loaded; e has its flag but d is collapsed
C17_Witness ==
    /\ Len(Nodes(files)) = 5
    /\ expandedDirectories = {PathE}

\* C18: the storage holds for a path the content of the write it last
\* acknowledged, a read is answered with the content the storage holds, and
\* openFile puts the content of the answer, the empty one included, in the
\* editor together with the path.
C18_RoundTrip ==
    [][\A i \in DOMAIN fileOps :
          /\ (fileOps[i].pc = "write" /\ BackendFiles(i, "none")) =>
                 /\ storage'[fileOps[i].path] = <<fileOps[i].content>>
                 /\ fileOps'[i].resp = "ok"
          /\ (/\ fileOps[i].pc = "read"
              /\ Present(storage, fileOps[i].path)
              /\ BackendFiles(i, "none")) =>
                 /\ fileOps'[i].content = storage[fileOps[i].path][1]
                 /\ fileOps'[i].resp = "ok"
          /\ (fileOps[i].resp = "ok" /\ OpenFileResume(i)) =>
                 /\ currentFile' = fileOps[i].path
                 /\ fileContent' = fileOps[i].content]_vars

\* the editor was emptied and saved, and z was opened again
C18_Witness ==
    /\ storage[PathZ] = <<"">>
    /\ currentFile = PathZ
    /\ fileContent = ""
    /\ fileOps = <<>>
    /\ terminalOutput = <<"saved", "opening", "opened">>

\* ------------------------------------------------------------ store claims
\* the fields of the store that partialize leaves out
Volatile(state) ==
    [aiConnected  |-> state.aiConnected,
     activeAgents |-> state.activeAgents,
     agentStatus  |-> state.agentStatus,
     initialized  |-> state.initialized,
     loading      |-> state.loading,
     error        |-> state.error]

\* C19: across a reload of the page, the persisted part of the store (the
\* projects, the file-content cache, the chat history, the terminal log, the
\* current file, the open files, the active file and the layout flags) has
\* the values it had before the reload, and the fields that are not persisted
\* (agent status, active agents, connection flag, loading, error, initialized)
\* have their initial values.
C19_ReloadKeepsPersisted ==
    [][Reload => /\ partialize(store') = partialize(store)
                 /\ Volatile(store') = Volatile(initialState)]_vars

\* C20: a failed operation is never dropped from the log the user sees: a
\* task submission that fails, because the request threw or because the
\* response is not a success, appends at least one line to the terminal.
C20_FailuresLogged ==
    [][\A i \in 1..MaxInFlight, o \in {"rejected", "threw"} :
          ExecuteAgentTaskResume(i, o) =>
              Len(terminalOutput') > Len(terminalOutput)]_vars

\* ----------------------------------------------------- task registry claims
\* the event of a frame is addressed to the task record
Addresses(f, task) == HasSession(f) /\ f.data[1].session_id = task.session_id

\* C21: a frame delivered on the channel leaves the session id, the
\* description, the agent kind and the creation time of every task as they
\* were, and leaves every field of every task whose session id is not the
\* event's as it was.
C21_ProgressTouchesOnlyItsTask ==
    [][\A f \in Frames :
          OnMessage(f) =>
              /\ Len(activeTasks') = Len(activeTasks)
              /\ \A k \in DOMAIN activeTasks :
                     /\ activeTasks'[k].session_id = activeTasks[k].session_id
                     /\ activeTasks'[k].task = activeTasks[k].task
                     /\ activeTasks'[k].agent_type = activeTasks[k].agent_type
                     /\ activeTasks'[k].created_at = activeTasks[k].created_at
                     /\ ~Addresses(f, activeTasks[k]) =>
                            activeTasks'[k] = activeTasks[k]]_vars

\* two tasks, the progress event of one applied, the other untouched
C21_Witness ==
    /\ Len(activeTasks) = 2
    /\ \E i, j \in DOMAIN activeTasks :
           /\ activeTasks[i].progress # <<>>
           /\ activeTasks[j].progress = <<>>
           /\ activeTasks[i].created_at # activeTasks[j].created_at

\* the session ids of the task records, in the order of the list
SessionsOf(tasks) == [k \in DOMAIN tasks |-> tasks[k].session_id]

IsSuffix(s, t) ==
    /\ Len(s) <= Len(t)
    /\ s = SubSeq(t, Len(t) - Len(s) + 1, Len(t))

TerminalEvent ==
    \/ \E sid \in SessionIds, r \in Results : Complete(sid, r)
    \/ \E sid \in SessionIds, r \in Reasons : Fail(sid, r)

\* C22: every step keeps every task record and the order of the records: the
\* records of before are the tail of the list of after, in the same order;
\* and the status of a record changes in no step other than a terminal event,
\* so a task without one stays pending.
C22_RegistryRetainsTasks ==
    [][/\ IsSuffix(SessionsOf(activeTasks), SessionsOf(activeTasks'))
       /\ \A k \in DOMAIN activeTasks :
              LET k2 == k + Len(activeTasks') - Len(activeTasks) IN
              activeTasks'[k2].status # activeTasks[k].status => TerminalEvent]_vars

\* two tasks in creation order, the older one completed, the newer one still
\* pending after the channel has closed
C22_Witness ==
    /\ SessionsOf(activeTasks) = <<2, 1>>
    /\ activeTasks[1].status = "pending"
    /\ activeTasks[2].status = "completed"
    /\ socketRef = "closed"

\* ------------------------------------------------------------- chat claims
\* C23: every step leaves the chat messages as they are or appends one
\* message after them; no message is changed, moved or removed.
C23_ChatAppendOnly ==
    [][\/ chatMessages' = chatMessages
       \/ /\ Len(chatMessages') = Len(chatMessages) + 1
          /\ SubSeq(chatMessages', 1, Len(chatMessages)) = chatMessages]_vars

\* two exchanges: the second user message and its reply came after the first
C23_Witness ==
    /\ Len(chatMessages) = 4
    /\ [k \in 1..4 |-> chatMessages[k].sender] = <<"user", "ai", "user", "ai">>
    /\ chatMessages[2].created # chatMessages[4].created

\* C24: sendChatMessage with a text that is empty or all spaces appends nothing
\* and issues no request; with any other text it appends the user's message
\* and issues one POST that carries it, and no other step issues one.  A
\* continuation of the call appends a message only when the POST was answered
\* with success, and the message is the agent's reply, placed after the
\* user's message of that call.
C24_ChatSend ==
    [][/\ (SendChatMessage /\ Blank(chatInput)) =>
              (chatMessages' = chatMessages /\ chatReqs' = chatReqs)
       /\ (SendChatMessage /\ ~Blank(chatInput)) =>
              /\ chatMessages' = Append(chatMessages, UserMessage(chatInput))
              /\ Len(chatReqs') = Len(chatReqs) + 1
              /\ chatReqs'[Len(chatReqs')].pc = "post"
              /\ chatReqs'[Len(chatReqs')].message = chatInput
       /\ Len(chatReqs') > Len(chatReqs) => SendChatMessage
       /\ \A i \in 1..MaxInFlight :
              (SendChatMessageResume(i) /\ chatMessages' # chatMessages) =>
                  /\ chatReqs[i].pc = "list" \/ chatReqs[i].resp = "ok"
                  /\ chatMessages[Len(chatMessages)] = UserMessage(chatReqs[i].message)
                  /\ chatMessages' = Append(chatMessages,
                                            AiMessage(<<"r">>, chatReqs[i].created))]_vars

\* an exchange that was answered, one whose POST failed, and then a text of
\* one space in the input
C24_Witness ==
    /\ Len(chatMessages) = 3
    /\ [k \in 1..3 |-> chatMessages[k].sender] = <<"user", "ai", "user">>
    /\ chatReqs = <<>>
    /\ timers = <<>>
    /\ chatInput = <<" ">>

\* ------------------------------------------------------------- save claims
\* an openFile or a saveFile has been called and has not finished
LoadOrSaveInProgress ==
    \E i \in DOMAIN fileOps : fileOps[i].op \in {"open", "save"}

\* C25: in every state where no file is open, or where a load or a save is
\* in progress, the Save button is disabled; and a saveFile called with no
\* project or no open file sends no write.
C25_SaveUnavailable ==
    /\ []((Falsy(currentFile) \/ LoadOrSaveInProgress) => SaveDisabled)
    /\ [][(SaveFile /\ (currentProject = <<>> \/ Falsy(currentFile))) =>
              fileOps' = fileOps]_vars

\* --------------------------------------------------------- progress claims
\* C26: after a progress event for a task of the list is delivered, the
\* progress the task stores is that event and nothing else: each event
\* supersedes the one before it, in the order of delivery.
C26_LastProgressWins ==
    [][\A f \in SessionFrames :
          OnMessage(f) =>
              \A k \in DOMAIN activeTasks :
                  activeTasks[k].session_id = f.data[1].session_id =>
                      activeTasks'[k].progress = <<f.data[1]>>]_vars

\* two progress events were delivered; the only task stores one event, of
\* the lowest percentage
C26_Witness ==
    /\ Len(activeTasks) = 1
    /\ nextSession = 2
    /\ activeTasks[1].progress # <<>>
    /\ activeTasks[1].progress[1].progress = 10
    /\ Len(SelectSeq(terminalOutput, LAMBDA m : m = "agent_update")) = 2

\* C27: when the timer set for the main file of a chat response fires and
\* the refreshed tree holds that file, openFile is called on it, whether or
\* not the tree held the file when the chat request was sent.
C27_MainFileOpened ==
    [][(/\ timers # <<>>
        /\ Head(timers).kind = "open"
        /\ InTree(Head(timers).mainFile)
        /\ FireTimer) =>
           /\ Len(fileOps') = Len(fileOps) + 1
           /\ fileOps'[Len(fileOps')].op = "open"
           /\ fileOps'[Len(fileOps')].path = Head(timers).mainFile]_vars

\* ------------------------------------------------------ editor store claims
NoDuplicates(seq) ==
    \A i, j \in DOMAIN seq : seq[i] = seq[j] => i = j

\* C28: openFiles of the store never holds a path twice and activeFile is
\* null or one of openFiles; closeFile of the active file makes the last of
\* the files that remain open the active one, null when none remains, and
\* closeFile of any other file leaves activeFile as it was.
C28_OpenFilesConsistent ==
    /\ [](/\ NoDuplicates(store.openFiles)
          /\ store.activeFile # <<>> =>
                 \E k \in DOMAIN store.openFiles :
                     store.openFiles[k] = store.activeFile[1])
    /\ [][\A p \in StorePaths :
             StoreCloseFile(p) =>
                 LET rest == SelectSeq(store.openFiles, LAMBDA f : f # p) IN
                 /\ store'.openFiles = rest
                 /\ store.activeFile = <<p>> =>
                        store'.activeFile =
                            IF rest = <<>> THEN <<>> ELSE <<rest[Len(rest)]>>
                 /\ store.activeFile # <<p>> =>
                        store'.activeFile = store.activeFile]_vars

\* b was opened, then a, then b again: b is listed once and is active
C28_Witness ==
    /\ store.openFiles = <<"b", "a">>
    /\ store.activeFile = <<"b">>
    /\ localStorage # <<>>

\* ------------------------------------------------------ concurrency claims
\* C29: in every state where no call of a file function awaits a response,
\* currentFile is empty or is the path of a file the storage holds.
C29_OpenFileExists ==
    fileOps = <<>> =>
        \/ currentFile = <<>>
        \/ currentFile \in FilePaths /\ Present(storage, currentFile)

\* the backend has answered a submit with session id sid and the
\* continuation of the call has not run yet
Unapplied(sid) == \E i \in DOMAIN taskReqs : taskReqs[i].session_id = sid

\* C30: the continuation of an acknowledged submit adds exactly one record,
\* for the session id of the answer and without progress; a progress event
\* for a session whose record is in the list is stored in that record; a
\* progress event for a session whose answer has not been applied yet leaves
\* the list as it was, so the record added later starts without progress.
C30_CreationAndProgressInterleave ==
    [][/\ \A i \in DOMAIN taskReqs :
              ExecuteAgentTaskResume(i, "ok") =>
                  /\ Len(activeTasks') = Len(activeTasks) + 1
                  /\ Tail(activeTasks') = activeTasks
                  /\ Head(activeTasks').session_id = taskReqs[i].session_id
                  /\ Head(activeTasks').progress = <<>>
       /\ \A f \in SessionFrames :
              OnMessage(f) =>
                  LET sid == f.data[1].session_id IN
                  /\ Unapplied(sid) => activeTasks' = activeTasks
                  /\ \A k \in DOMAIN activeTasks :
                         activeTasks[k].session_id = sid =>
                             activeTasks'[k].progress = <<f.data[1]>>]_vars

\* a progress event arrived before the record of the only task was added;
\* the record has no progress
C30_Witness ==
    /\ Len(activeTasks) = 1
    /\ activeTasks[1].progress = <<>>
    /\ taskReqs = <<>>
    /\ \E k \in 1..(Len(terminalOutput) - 1) :
           /\ terminalOutput[k] = "agent_update"
           /\ terminalOutput[k + 1] = "task_started"

====
